---- MODULE Spec2Model ----
(***************************************************************************)
(* Relational graph-rewriting combinators of symbolic_pymc/relations/      *)
(* graph.py: lapply_anyo, reduceo and graph_applyo; and optimize_graph of  *)
(* symbolic_pymc/theano/utils.py.                                          *)
(*                                                                         *)
(* A goal is evaluated against a ground input term and an output term that *)
(* is either ground or an unbound logic variable; the value of a goal is   *)
(* the set of terms its output is bound to over all success leaves of its  *)
(* search tree, explored down to MaxDepth nested goal calls.               *)
(***************************************************************************)
EXTENDS Integers, Sequences, FiniteSets, TLC

\* ------------------------------------------------------------------ bounds
MaxLen == 3       \* longest flat sequence handed to lapply_anyo
MaxWidth == 2     \* longest sequence term handed to graph_applyo
MaxDepth == 5     \* nested recursive goal calls explored by one evaluation

\* ------------------------------------------------------------------- terms
Atoms == {1, 2, 3}
Kinds == {"list", "tuple"}

Atom(n) == [k |-> "atom", v |-> n, e |-> <<>>]
SeqT(kind, es) == [k |-> kind, v |-> 0, e |-> es]
List(es) == SeqT("list", es)
VarT == [k |-> "var", v |-> 0, e |-> <<>>]
NoneT == [k |-> "none", v |-> 0, e |-> <<>>]
FailT == [k |-> "fail", v |-> 0, e |-> <<>>]

isvar(t) == t.k = "var"
is_cons(t) == t.k \in Kinds /\ Len(t.e) > 0
is_null(t) == t.k \in Kinds /\ Len(t.e) = 0
\* type(t)(): the empty sequence of t's own kind
null_of(t) == [k |-> t.k, v |-> 0, e |-> <<>>]
car(t) == t.e[1]
cdr(t) == [k |-> t.k, v |-> 0, e |-> Tail(t.e)]
cons(h, t) == [k |-> t.k, v |-> 0, e |-> <<h>> \o t.e]

\* eq(u, v) for a ground u: the bindings of v under which the two unify
eq(u, v) == IF isvar(v) \/ u = v THEN {u} ELSE {}

\* conso(car, cdr, l) can decompose l (ground), or build it (unbound)
conso_ok(l) == isvar(l) \/ is_cons(l)
\* the head and the tail conso binds; an unbound l gives fresh variables
conso_car(l) == IF isvar(l) THEN VarT ELSE car(l)
conso_cdr(l) == IF isvar(l) THEN VarT ELSE cdr(l)

\* The caller's elementary relation, a finite set of ground pairs <<x, y>>:
\* relation(x, y) binds y to every right-hand side paired with x.
relation_R(R, x, y) == {p[2] : p \in {q \in R : q[1] = x /\ (isvar(y) \/ q[2] = y)}}

\* ---------------------------------------------------------------- the goals
RECURSIVE lapply_anyo(_, _, _, _, _, _)
RECURSIVE reduceo(_, _, _, _)
RECURSIVE graph_applyo(_, _, _, _)

\* null_type without the comparison of the two sentinels (no early fail)
null_type_unchecked(l_in, l_out) ==
    IF is_cons(l_in) \/ is_null(l_in) THEN null_of(l_in)
    ELSE IF is_cons(l_out) \/ is_null(l_out) THEN null_of(l_out) ELSE NoneT

\* graph.py 19-27: the sentinel both sequences must end in, or FailT
null_type(l_in, l_out) ==
    LET n0 == IF is_cons(l_out) \/ is_null(l_out) THEN null_of(l_out) ELSE NoneT
    IN  IF is_cons(l_in) \/ is_null(l_in)
        THEN IF n0 # NoneT /\ ~(n0 = null_of(l_in)) THEN FailT ELSE null_of(l_in)
        ELSE n0

\* What lapply_anyo returns: the fail goal, or the two-branch condeseq
lapply_anyo_goal(l_in, l_out) ==
    IF null_type(l_in, l_out) = FailT THEN "fail" ELSE "condeseq"

\* What pulling the returned goal does first: for the condeseq, the
\* unification of conso on l_in, and the relation on the two heads once both
\* sequences decompose; the fail goal does neither.
lapply_anyo_events(l_in, l_out) ==
    IF lapply_anyo_goal(l_in, l_out) = "fail" THEN {}
    ELSE {"unify"} \cup
         (IF conso_ok(l_in) /\ conso_ok(l_out) THEN {"relation"} ELSE {})

\* The relation argument of lapply_anyo: the elementary relation ("R") or
\* partial(graph_applyo, relation) ("gapplyo").
apply_relation(which, R, x, y, d) ==
    IF which = "R" THEN relation_R(R, x, y) ELSE graph_applyo(R, x, y, d)

\* lapply_anyo whose relation branch carries the flag on unchanged instead
\* of passing True
lapply_anyo_flag_not_set(which, R, l_in, l_out, i_any, d) ==
    IF lapply_anyo_goal(l_in, l_out) = "fail" THEN {}
    ELSE
      LET nt == null_type(l_in, l_out)
          step ==
            IF is_cons(l_in) /\ conso_ok(l_out)
            THEN LET l_car == car(l_in)
                     l_cdr == cdr(l_in)
                     o_car == conso_car(l_out)
                     o_cdr == conso_cdr(l_out)
                 IN  {cons(h, t) : h \in apply_relation(which, R, l_car, o_car, d),
                                   t \in lapply_anyo(which, R, l_cdr, o_cdr, i_any, d)}
                     \cup
                     {cons(h, t) : h \in eq(l_car, o_car),
                                   t \in lapply_anyo(which, R, l_cdr, o_cdr, i_any, d)}
            ELSE {}
          base ==
            IF i_any = TRUE /\ l_in = nt THEN eq(l_in, l_out) ELSE {}
      IN  step \cup base

\* lapply_anyo whose base case does not ask for the flag
lapply_anyo_base_unflagged(which, R, l_in, l_out, i_any, d) ==
    IF lapply_anyo_goal(l_in, l_out) = "fail" THEN {}
    ELSE
      LET nt == null_type(l_in, l_out)
          step ==
            IF is_cons(l_in) /\ conso_ok(l_out)
            THEN LET l_car == car(l_in)
                     l_cdr == cdr(l_in)
                     o_car == conso_car(l_out)
                     o_cdr == conso_cdr(l_out)
                 IN  {cons(h, t) : h \in apply_relation(which, R, l_car, o_car, d),
                                   t \in lapply_anyo(which, R, l_cdr, o_cdr, TRUE, d)}
                     \cup
                     {cons(h, t) : h \in eq(l_car, o_car),
                                   t \in lapply_anyo(which, R, l_cdr, o_cdr, i_any, d)}
            ELSE {}
          base ==
            IF l_in = nt THEN eq(l_in, l_out) ELSE {}
      IN  step \cup base

\* lapply_anyo whose base case does not unify l_in with l_out
lapply_anyo_base_unchecked(which, R, l_in, l_out, i_any, d) ==
    IF lapply_anyo_goal(l_in, l_out) = "fail" THEN {}
    ELSE
      LET nt == null_type(l_in, l_out)
          step ==
            IF is_cons(l_in) /\ conso_ok(l_out)
            THEN LET l_car == car(l_in)
                     l_cdr == cdr(l_in)
                     o_car == conso_car(l_out)
                     o_cdr == conso_cdr(l_out)
                 IN  {cons(h, t) : h \in apply_relation(which, R, l_car, o_car, d),
                                   t \in lapply_anyo(which, R, l_cdr, o_cdr, TRUE, d)}
                     \cup
                     {cons(h, t) : h \in eq(l_car, o_car),
                                   t \in lapply_anyo(which, R, l_cdr, o_cdr, i_any, d)}
            ELSE {}
          base ==
            IF i_any = TRUE /\ l_in = nt THEN {l_in} ELSE {}
      IN  step \cup base

\* graph.py 10-54
lapply_anyo(which, R, l_in, l_out, i_any, d) ==
    IF lapply_anyo_goal(l_in, l_out) = "fail" THEN {}
    ELSE
      LET nt == null_type(l_in, l_out)
          step ==
            IF is_cons(l_in) /\ conso_ok(l_out)
            THEN LET l_car == car(l_in)
                     l_cdr == cdr(l_in)
                     o_car == conso_car(l_out)
                     o_cdr == conso_cdr(l_out)
                 IN  {cons(h, t) : h \in apply_relation(which, R, l_car, o_car, d),
                                   t \in lapply_anyo(which, R, l_cdr, o_cdr, TRUE, d)}
                     \cup
                     {cons(h, t) : h \in eq(l_car, o_car),
                                   t \in lapply_anyo(which, R, l_cdr, o_cdr, i_any, d)}
            ELSE {}
          base ==
            IF i_any = TRUE /\ l_in = nt THEN eq(l_in, l_out) ELSE {}
      IN  step \cup base

\* eq(u, v), each side ground or unbound: the bindings <<u, v>> under which
\* the two unify (two unbound sides stay unbound, and equal)
eq_both(u, v) ==
    IF isvar(u) /\ isvar(v) THEN {<<VarT, VarT>>}
    ELSE IF isvar(u) THEN {<<v, v>>}
    ELSE IF isvar(v) THEN {<<u, u>>}
    ELSE IF u = v THEN {<<u, u>>} ELSE {}

\* relation(x, y), each side ground or unbound: the pairs of R that fit
relation_both(R, x, y) ==
    {p \in R : (isvar(x) \/ p[1] = x) /\ (isvar(y) \/ p[2] = y)}

RECURSIVE lapply_anyo_solutions(_, _, _, _, _)

\* lapply_anyo_solutions whose base case does not unify l_in with l_out
lapply_anyo_solutions_base_unchecked(R, l_in, l_out, i_any, d) ==
    IF d = 0 \/ lapply_anyo_goal(l_in, l_out) = "fail" THEN {}
    ELSE
      LET nt == null_type(l_in, l_out)
          step ==
            IF conso_ok(l_in) /\ conso_ok(l_out)
            THEN LET l_car == conso_car(l_in)
                     l_cdr == conso_cdr(l_in)
                     o_car == conso_car(l_out)
                     o_cdr == conso_cdr(l_out)
                 IN  {<<cons(h[1], t[1]), cons(h[2], t[2])>> :
                        h \in relation_both(R, l_car, o_car),
                        t \in lapply_anyo_solutions(R, l_cdr, o_cdr, TRUE, d - 1)}
                     \cup
                     {<<cons(h[1], t[1]), cons(h[2], t[2])>> :
                        h \in eq_both(l_car, o_car),
                        t \in lapply_anyo_solutions(R, l_cdr, o_cdr, i_any, d - 1)}
            ELSE {}
          base ==
            IF i_any = TRUE
            THEN {<<p[1], l_out>> : p \in eq_both(l_in, nt)}
            ELSE {}
      IN  step \cup base

\* graph.py 10-54 with l_in and l_out each a concrete sequence or an unbound
\* variable: the bindings <<l_in, l_out>> of its solutions, the recursion on
\* the tails followed d calls deep. An unbound side is built head by head by
\* conso (lines 32 and 33) and ended by the base case (line 52), which binds
\* l_in to null_type and l_out to l_in.
lapply_anyo_solutions(R, l_in, l_out, i_any, d) ==
    IF d = 0 \/ lapply_anyo_goal(l_in, l_out) = "fail" THEN {}
    ELSE
      LET nt == null_type(l_in, l_out)
          step ==
            IF conso_ok(l_in) /\ conso_ok(l_out)
            THEN LET l_car == conso_car(l_in)
                     l_cdr == conso_cdr(l_in)
                     o_car == conso_car(l_out)
                     o_cdr == conso_cdr(l_out)
                 IN  {<<cons(h[1], t[1]), cons(h[2], t[2])>> :
                        h \in relation_both(R, l_car, o_car),
                        t \in lapply_anyo_solutions(R, l_cdr, o_cdr, TRUE, d - 1)}
                     \cup
                     {<<cons(h[1], t[1]), cons(h[2], t[2])>> :
                        h \in eq_both(l_car, o_car),
                        t \in lapply_anyo_solutions(R, l_cdr, o_cdr, i_any, d - 1)}
            ELSE {}
          base ==
            IF i_any = TRUE
            THEN UNION {eq_both(p[1], l_out) : p \in eq_both(l_in, nt)}
            ELSE {}
      IN  step \cup base

\* reduceo without its multi-step branch
reduceo_single_step(R, in_expr, out_expr, d) ==
    IF d = 0 THEN {}
    ELSE relation_R(R, in_expr, out_expr)

\* reduceo with the identity added as a third branch
reduceo_with_identity(R, in_expr, out_expr, d) ==
    IF d = 0 THEN {}
    ELSE
      LET multi == UNION {reduceo(R, expr_rdcd, out_expr, d - 1) :
                            expr_rdcd \in relation_R(R, in_expr, VarT)}
          single == relation_R(R, in_expr, out_expr)
      IN  multi \cup single \cup eq(in_expr, out_expr)

\* reduceo as a committed choice: the single step only when the multi-step
\* branch has no solution
reduceo_committed(R, in_expr, out_expr, d) ==
    IF d = 0 THEN {}
    ELSE
      LET multi == UNION {reduceo(R, expr_rdcd, out_expr, d - 1) :
                            expr_rdcd \in relation_R(R, in_expr, VarT)}
          single == relation_R(R, in_expr, out_expr)
      IN  IF multi # {} THEN multi ELSE single

\* graph.py 57-71
reduceo(R, in_expr, out_expr, d) ==
    IF d = 0 THEN {}
    ELSE
      LET multi == UNION {reduceo(R, expr_rdcd, out_expr, d - 1) :
                            expr_rdcd \in relation_R(R, in_expr, VarT)}
          single == relation_R(R, in_expr, out_expr)
      IN  multi \cup single

\* the intermediate terms with the elementary relation, not graph_applyo
\* itself, handed to lapply_anyo
graph_applyo_in_rdc_shallow(R, in_graph, d) ==
    relation_R(R, in_graph, VarT)
    \cup lapply_anyo("R", R, in_graph, VarT, FALSE, d)

\* the intermediate terms with the unchanged in_graph among them
graph_applyo_in_rdc_or_same(R, in_graph, d) ==
    relation_R(R, in_graph, VarT)
    \cup lapply_anyo("gapplyo", R, in_graph, VarT, FALSE, d)
    \cup {in_graph}

\* the intermediate terms with lapply_anyo's flag passed as True: a sequence
\* in_graph is then among them unchanged
graph_applyo_in_rdc_flag_set(R, in_graph, d) ==
    relation_R(R, in_graph, VarT)
    \cup lapply_anyo("gapplyo", R, in_graph, VarT, TRUE, d)

\* graph.py 83 and 90: the bindings of in_rdc, by the relation applied to
\* in_graph itself or by lapply_anyo applying graph_applyo to its elements
graph_applyo_in_rdc(R, in_graph, d) ==
    relation_R(R, in_graph, VarT)
    \cup lapply_anyo("gapplyo", R, in_graph, VarT, FALSE, d)

\* graph.py 74-97 for every in_graph of S at once: each binding of in_rdc is
\* accepted as out_graph or handed to graph_applyo again (lines 86 and 93);
\* the recursive goals of all the bindings are evaluated together.
RECURSIVE graph_applyo_all(_, _, _, _)
graph_applyo_all(R, S, out_graph, d) ==
    IF d = 0 \/ S = {} THEN {}
    ELSE
      LET in_rdcs == UNION {graph_applyo_in_rdc(R, in_graph, d - 1) : in_graph \in S}
      IN  graph_applyo_all(R, in_rdcs, out_graph, d - 1)
          \cup UNION {eq(in_rdc, out_graph) : in_rdc \in in_rdcs}

\* graph.py 74-97
graph_applyo(R, in_graph, out_graph, d) ==
    graph_applyo_all(R, {in_graph}, out_graph, d)

\* graph.py 74-97 explored to depth d: whether a goal call is left
\* unevaluated at depth 0. Every in_graph of S calls lapply_anyo, which calls
\* graph_applyo on each element of a sequence in turn (lines 39 and 40, the
\* identity branch of line 45 always leading on to the tail), and every
\* binding of in_rdc calls graph_applyo again (lines 86 and 93).
RECURSIVE graph_applyo_suspended(_, _, _)
RECURSIVE lapply_anyo_suspended(_, _, _)
lapply_anyo_suspended(R, l_in, d) ==
    /\ is_cons(l_in)
    /\ \/ graph_applyo_suspended(R, {car(l_in)}, d)
       \/ lapply_anyo_suspended(R, cdr(l_in), d)

graph_applyo_suspended(R, S, d) ==
    IF S = {} THEN FALSE
    ELSE IF d = 0 THEN TRUE
    ELSE
      LET in_rdcs == UNION {graph_applyo_in_rdc(R, in_graph, d - 1) : in_graph \in S}
      IN  \/ \E in_graph \in S : lapply_anyo_suspended(R, in_graph, d - 1)
          \/ graph_applyo_suspended(R, in_rdcs, d - 1)

\* ----------------------------------------------------------------- inputs
RECURSIVE SeqsOver(_, _)
SeqsOver(S, n) ==
    IF n = 0 THEN {<<>>}
    ELSE LET shorter == SeqsOver(S, n - 1)
         IN  shorter \cup {<<x>> \o s : x \in S, s \in {t \in shorter : Len(t) = n - 1}}

AtomTerms == {Atom(n) : n \in Atoms}
\* sequences handed to lapply_anyo: lists and tuples of the atoms 2 and 3
SeqAtoms == {Atom(2), Atom(3)}
FlatSeqs == {SeqT(kd, es) : kd \in Kinds, es \in SeqsOver(SeqAtoms, MaxLen)}

\* candidate rewrite pairs: a chain 1 -> 2 -> 3, a two-cycle 2 -> 1, a
\* reflexive pair on 2, and a rewrite of the compound [2] at its root
RPairs == {<<Atom(1), Atom(2)>>, <<Atom(2), Atom(3)>>, <<Atom(2), Atom(1)>>,
           <<Atom(2), Atom(2)>>, <<List(<<Atom(2)>>), Atom(3)>>}
Relations == SUBSET RPairs
\* the relations that differ on the elements of FlatSeqs
SeqRelations == SUBSET {p \in RPairs : p[1] \in SeqAtoms}

\* a relation with no chain of two steps, under which [2] is rewritten to [3]
\* at its element and [3] back to [2] at its root
NestedCycle == {<<Atom(2), Atom(3)>>, <<List(<<Atom(3)>>), List(<<Atom(2)>>)>>}
\* the relations handed to graph_applyo
GRelations == Relations \cup {NestedCycle}

\* terms handed to reduceo: the atoms and the compound [2]
RTerms == AtomTerms \cup {List(<<Atom(2)>>)}
\* terms handed to graph_applyo: the atoms, the lists made of the atom 2 and
\* the nested list [2], and the tuples of the atom 2
GElems == {Atom(2), List(<<Atom(2)>>)}
GTerms == AtomTerms
          \cup {List(es) : es \in SeqsOver(GElems, MaxWidth)}
          \cup {SeqT("tuple", es) : es \in SeqsOver({Atom(2)}, MaxWidth)}

\* ------------------------------------------------------------------ state
\* One goal call at a time: op names the combinator called, rel, arg_in,
\* arg_out and i_any are its arguments, goal and events what the call
\* returned and did, res the bindings of arg_out over all its solutions.
\* A reduceo call may be run again with a larger relation: base_res then
\* keeps the first run's solutions.
\* While the results of a reduceo goal are pulled one search step at a time
\* (op = "pull"), branches holds the pending branches of its search.
\* suspended tells whether a graph_applyo evaluation left goal calls
\* unevaluated at MaxDepth.
\* solutions holds the bindings <<l_in, l_out>> of a lapply_anyo call.
VARIABLES rel, op, arg_in, arg_out, i_any, goal, events, res, extended, base_res,
          branches, suspended, solutions

\* The Theano side (theano/utils.py): fgraphs holds the outputs of every
\* FunctionGraph object alive, by object identity; x_arg, in_place, x_before,
\* x_graph_opt and og_res are the last optimize_graph call's argument x, its
\* in_place flag, the outputs x had when it was given as a FunctionGraph,
\* the graph object the optimization ran on, and the value returned.
VARIABLES fgraphs, x_arg, in_place, x_before, x_graph_opt, og_res

rvars == <<rel, op, arg_in, arg_out, i_any, goal, events, res, extended, base_res,
           branches, suspended, solutions>>
tvars == <<fgraphs, x_arg, in_place, x_before, x_graph_opt, og_res>>
vars == <<rvars, tvars>>

\* ------------------------------------------------------ FunctionGraph objects
MaxGraphs == 3    \* FunctionGraph objects alive at once
GraphIds == 1..MaxGraphs
\* the expressions a graph computes, and the output lists of a graph
Exprs == {"x", "x+0"}
Outputs == {<<e>> : e \in Exprs} \cup {<<e1, e2>> : e1 \in Exprs, e2 \in Exprs}
\* no object under this identity
NoGraph == <<>>
\* an optimization rewrites the expressions of the graph it is run on
Optimizations == [Exprs -> Exprs]

\* the values handed to and returned by optimize_graph: a FunctionGraph (by
\* identity), a single variable, a list of output variables, or nothing yet
GraphRef(g) == [k |-> "graph", g |-> g, o |-> <<>>]
Variable(e) == [k |-> "variable", g |-> 0, o |-> <<e>>]
OutputList(o) == [k |-> "outputs", g |-> 0, o |-> o]
NoValue == [k |-> "none", g |-> 0, o |-> <<>>]

TheanoInit ==
    /\ fgraphs = [g \in GraphIds |-> NoGraph]
    /\ x_arg = NoValue
    /\ in_place = FALSE
    /\ x_before = NoGraph
    /\ x_graph_opt = 0
    /\ og_res = NoValue

Init ==
    /\ rel = {}
    /\ op = "idle"
    /\ arg_in = NoneT
    /\ arg_out = NoneT
    /\ i_any = FALSE
    /\ goal = "none"
    /\ events = {}
    /\ res = {}
    /\ extended = FALSE
    /\ base_res = {}
    /\ branches = {}
    /\ suspended = FALSE
    /\ solutions = {}
    /\ TheanoInit

Call_lapply_anyo(R, a, b, flag) ==
    /\ op = "idle"
    /\ op' = "lapply_anyo"
    /\ rel' = R
    /\ arg_in' = a
    /\ arg_out' = b
    /\ i_any' = flag
    /\ goal' = lapply_anyo_goal(a, b)
    /\ events' = lapply_anyo_events(a, b)
    /\ res' = lapply_anyo("R", R, a, b, flag, MaxDepth)
    /\ solutions' = {<<a, t>> : t \in res'}
    /\ UNCHANGED <<extended, base_res, branches, suspended>>
    /\ UNCHANGED tvars

\* lapply_anyo called with l_in an unbound variable, l_out a concrete
\* sequence b or unbound as well; sequences of MaxLen elements at most are
\* generated
Call_lapply_anyo_unbound(R, b, flag) ==
    /\ op = "idle"
    /\ op' = "lapply_anyo"
    /\ rel' = R
    /\ arg_in' = VarT
    /\ arg_out' = b
    /\ i_any' = flag
    /\ goal' = lapply_anyo_goal(VarT, b)
    /\ events' = lapply_anyo_events(VarT, b)
    /\ solutions' = lapply_anyo_solutions(R, VarT, b, flag, MaxLen + 1)
    /\ res' = {p[2] : p \in solutions'}
    /\ UNCHANGED <<extended, base_res, branches, suspended>>
    /\ UNCHANGED tvars

Call_reduceo(R, x, y) ==
    /\ op = "idle"
    /\ op' = "reduceo"
    /\ rel' = R
    /\ arg_in' = x
    /\ arg_out' = y
    /\ goal' = "condeseq"
    /\ res' = reduceo(R, x, y, MaxDepth)
    /\ UNCHANGED <<i_any, events, extended, base_res, branches, suspended, solutions>>
    /\ UNCHANGED tvars

\* the same reduceo call again, under a relation that contains the first
Call_reduceo_extended(R2) ==
    /\ op = "reduceo"
    /\ ~extended
    /\ rel \subseteq R2 /\ R2 # rel
    /\ extended' = TRUE
    /\ base_res' = res
    /\ rel' = R2
    /\ res' = reduceo(R2, arg_in, arg_out, MaxDepth)
    /\ UNCHANGED <<op, arg_in, arg_out, i_any, goal, events, branches, suspended, solutions>>
    /\ UNCHANGED tvars

Call_graph_applyo(R, x, y) ==
    /\ op = "idle"
    /\ op' = "graph_applyo"
    /\ rel' = R
    /\ arg_in' = x
    /\ arg_out' = y
    /\ goal' = "condeseq"
    /\ res' = graph_applyo(R, x, y, MaxDepth)
    /\ suspended' = graph_applyo_suspended(R, {x}, MaxDepth)
    /\ UNCHANGED <<i_any, events, extended, base_res, branches, solutions>>
    /\ UNCHANGED tvars

Return ==
    /\ op # "idle"
    /\ op' = "idle"
    /\ rel' = {}
    /\ arg_in' = NoneT
    /\ arg_out' = NoneT
    /\ i_any' = FALSE
    /\ goal' = "none"
    /\ events' = {}
    /\ res' = {}
    /\ extended' = FALSE
    /\ base_res' = {}
    /\ suspended' = FALSE
    /\ solutions' = {}
    /\ UNCHANGED branches
    /\ UNCHANGED tvars

\* ------------------------------------------------- reference definitions
\* one application of R at the root of t
RootStep(R, t) == {p[2] : p \in {q \in R : q[1] = t}}

\* one application of R at the root of t or at any nested position of it
RECURSIVE OneStep(_, _)
OneStep(R, t) ==
    RootStep(R, t) \cup
    (IF t.k \in Kinds
     THEN UNION {{[t EXCEPT !.e[i] = s] : s \in OneStep(R, t.e[i])} : i \in DOMAIN t.e}
     ELSE {})

\* the terms reachable from those of S by zero or more root steps
RECURSIVE RootClosure(_, _)
RootClosure(R, S) ==
    LET N == S \cup UNION {RootStep(R, t) : t \in S}
    IN  IF N = S THEN S ELSE RootClosure(R, N)

\* the terms y with a chain x = t0 R t1 R ... R tk = y, k >= 1
Chain(R, x) == RootClosure(R, RootStep(R, x))

RECURSIVE StepClosure(_, _)
StepClosure(R, S) ==
    LET N == S \cup UNION {OneStep(R, t) : t \in S}
    IN  IF N = S THEN S ELSE StepClosure(R, N)

\* the terms obtained from x by one or more applications of R, each at the
\* root or at a nested position of the current term
Reach(R, x) == StepClosure(R, OneStep(R, x))

\* the bindings of a ground-or-unbound output y among the terms of S
Bind(S, y) == {t \in S : isvar(y) \/ t = y}

\* the reflexive pairs on the terms reachable from x
ReflOn(R, x) == {<<t, t>> : t \in Chain(R, x)}

Idle == op = "idle"

Next ==
    \/ Idle /\ \E R \in SeqRelations, a \in FlatSeqs, b \in FlatSeqs \cup {VarT}, flag \in BOOLEAN :
                  Call_lapply_anyo(R, a, b, flag)
    \/ Idle /\ \E R \in SeqRelations, b \in FlatSeqs \cup {VarT}, flag \in BOOLEAN :
                  Call_lapply_anyo_unbound(R, b, flag)
    \/ Idle /\ \E R \in Relations, x \in RTerms, y \in RTerms \cup {VarT} :
                  Call_reduceo(R, x, y)
    \/ op = "reduceo" /\ \E R2 \in {rel \cup P : P \in SUBSET RPairs}
                                     \cup {rel \cup ReflOn(rel, arg_in)} :
                            Call_reduceo_extended(R2)
    \/ Idle /\ \E R \in GRelations, x \in GTerms : \E y \in {VarT, x} :
                  Call_graph_applyo(R, x, y)
    \/ Return

Spec == Init /\ [][Next]_vars

\* ------------------------------------------- pulling results from reduceo
\* The goal lists of reduceo's condeseq, in the order the source lists them
reduceo_multi_only == <<"multi">>

\* graph.py 64-70
reduceo_disjuncts == <<"multi", "single">>

Branch(g, t) == [g |-> g, t |-> t]
AllBranches == {Branch(g, t) : g \in {"reduceo", "multi", "single"}, t \in RTerms}

PullInit ==
    /\ rel \in Relations
    /\ op = "pull"
    /\ arg_in \in RTerms
    /\ arg_out \in RTerms \cup {VarT}
    /\ i_any = FALSE
    /\ goal = "condeseq"
    /\ events = {}
    /\ res = {}
    /\ extended = FALSE
    /\ base_res = {}
    /\ suspended = FALSE
    /\ solutions = {}
    /\ branches = {Branch("reduceo", arg_in)}
    /\ TheanoInit

\* the suspended goal (reduceo, relation, t, out_expr) is evaluated: its
\* condeseq offers one branch for each of its goal lists
Run_reduceo(b) ==
    /\ b \in branches /\ b.g = "reduceo"
    /\ branches' = (branches \ {b}) \cup
                    {Branch(reduceo_disjuncts[i], b.t) : i \in DOMAIN reduceo_disjuncts}
    /\ UNCHANGED <<rel, op, arg_in, arg_out, i_any, goal, events, res, extended, base_res, suspended, solutions>>
    /\ UNCHANGED tvars

\* the multi-step branch with the recursive goal called on in_expr again
\* instead of expr_rdcd
Run_multi_not_reduced(b) ==
    /\ b \in branches /\ b.g = "multi"
    /\ branches' = (branches \ {b}) \cup
                    {Branch("reduceo", b.t) : expr_rdcd \in relation_R(rel, b.t, VarT)}
    /\ UNCHANGED <<rel, op, arg_in, arg_out, i_any, goal, events, res, extended, base_res, suspended, solutions>>
    /\ UNCHANGED tvars

\* [(relation, in_expr, expr_rdcd), (reduceo, relation, expr_rdcd, out_expr)]:
\* every binding of expr_rdcd leaves the recursive goal suspended
Run_multi(b) ==
    /\ b \in branches /\ b.g = "multi"
    /\ branches' = (branches \ {b}) \cup
                    {Branch("reduceo", expr_rdcd) : expr_rdcd \in relation_R(rel, b.t, VarT)}
    /\ UNCHANGED <<rel, op, arg_in, arg_out, i_any, goal, events, res, extended, base_res, suspended, solutions>>
    /\ UNCHANGED tvars

\* [(relation, in_expr, out_expr)]: every binding of out_expr is a result
Run_single(b) ==
    /\ b \in branches /\ b.g = "single"
    /\ branches' = branches \ {b}
    /\ res' = res \cup relation_R(rel, b.t, arg_out)
    /\ UNCHANGED <<rel, op, arg_in, arg_out, i_any, goal, events, extended, base_res, suspended, solutions>>
    /\ UNCHANGED tvars

Run(b) == Run_reduceo(b) \/ Run_multi(b) \/ Run_single(b)

PullNext ==
    \/ \E b \in branches : Run_reduceo(b)
    \/ \E b \in branches : Run_multi(b)
    \/ \E b \in branches : Run_single(b)

\* the disjunction interleaves its branches fairly: no pending branch is
\* passed over for ever
PullSpec == PullInit /\ [][PullNext]_vars /\ \A b \in AllBranches : WF_vars(Run(b))

\* ------------------------------------------- optimizing Theano graphs
\* the identity a new FunctionGraph object gets on the heap h
FreeIds(h) == {g \in GraphIds : h[g] = NoGraph}
NewId(h) == CHOOSE g \in FreeIds(h) : \A g2 \in FreeIds(h) : g <= g2

\* utils.py 119: optimization.optimize(fgraph) rewrites fgraph's outputs
optimize(optimization, outputs) ==
    [i \in DOMAIN outputs |-> optimization[outputs[i]]]

\* a FunctionGraph is built over the output variables outs
New_FunctionGraph(outs) ==
    /\ FreeIds(fgraphs) # {}
    /\ fgraphs' = [fgraphs EXCEPT ![NewId(fgraphs)] = outs]
    /\ UNCHANGED <<x_arg, in_place, x_before, x_graph_opt, og_res>>
    /\ UNCHANGED rvars

\* utils.py 90-127: optimize_graph(x, optimization, return_graph, in_place),
\* return_graph being None, True or False. A variable x gets a new
\* FunctionGraph over its clone (lines 100-107); the optimization runs on
\* x_graph itself when in_place, on a clone of it otherwise (line 118).
optimize_graph(x, optimization, return_graph, in_place_given) ==
    LET is_graph == x.k = "graph"
        made == IF is_graph THEN fgraphs
                ELSE [fgraphs EXCEPT ![NewId(fgraphs)] = x.o]
        x_graph == IF is_graph THEN x.g ELSE NewId(fgraphs)
        returns_graph == IF return_graph = "None" THEN is_graph
                         ELSE return_graph = "True"
        opt_graph == IF in_place_given THEN x_graph ELSE NewId(made)
        optimized == [made EXCEPT ![opt_graph] = optimize(optimization, made[x_graph])]
        outs == optimized[opt_graph]
    IN  /\ Cardinality(FreeIds(fgraphs)) >=
             (IF is_graph THEN 0 ELSE 1) + (IF in_place_given THEN 0 ELSE 1)
        /\ is_graph => fgraphs[x.g] # NoGraph
        /\ fgraphs' = optimized
        /\ x_arg' = x
        /\ in_place' = in_place_given
        /\ x_before' = IF is_graph THEN fgraphs[x.g] ELSE NoGraph
        /\ x_graph_opt' = opt_graph
        /\ og_res' = IF returns_graph THEN GraphRef(opt_graph)
                     ELSE IF Len(outs) = 1 THEN Variable(outs[1])
                     ELSE OutputList(outs)
        /\ UNCHANGED rvars

OptNext ==
    \/ \E outs \in Outputs : New_FunctionGraph(outs)
    \/ \E x \in {GraphRef(g) : g \in GraphIds} \cup {Variable(e) : e \in Exprs},
          optimization \in Optimizations,
          return_graph \in {"None", "True", "False"},
          in_place_given \in BOOLEAN :
            optimize_graph(x, optimization, return_graph, in_place_given)

OptSpec == Init /\ [][OptNext]_vars

\* ------------------------------------------------------------- the claims
\* R holds between the two terms
Holds(R, u, v) == <<u, v>> \in R

\* a lapply_anyo call, flag at its default, on two concrete sequences of one
\* sentinel kind and one length n >= 1
EqualLengthCall ==
    /\ op = "lapply_anyo" /\ i_any = FALSE
    /\ is_cons(arg_in) /\ is_cons(arg_out)
    /\ arg_in.k = arg_out.k
    /\ Len(arg_in.e) = Len(arg_out.e)

\* C1 as stated: on two concrete sequences of equal length n >= 1 and one
\* sentinel kind, lapply_anyo has a solution iff R holds at one index i and
\* the elements are identical at every other index.
C1_ExactlyOneIndex ==
    EqualLengthCall =>
      ((res # {}) <=>
         \E i \in DOMAIN arg_in.e :
            /\ Holds(rel, arg_in.e[i], arg_out.e[i])
            /\ \A j \in DOMAIN arg_in.e \ {i} : arg_in.e[j] = arg_out.e[j])

\* C1 amended: lapply_anyo has a solution iff there is a non-empty set I of
\* indices with R holding at every index of I and identical elements at
\* every index outside I.
C1_SomeIndices ==
    EqualLengthCall =>
      ((res # {}) <=>
         \E I \in SUBSET DOMAIN arg_in.e :
            /\ I # {}
            /\ \A i \in I : Holds(rel, arg_in.e[i], arg_out.e[i])
            /\ \A j \in DOMAIN arg_in.e \ I : arg_in.e[j] = arg_out.e[j])

\* C1 witness: a solution that rewrites the first two positions of a
\* sequence, neither pair being identical
C1_Witness ==
    /\ EqualLengthCall /\ res # {}
    /\ Len(arg_in.e) >= 2
    /\ \A i \in 1..2 : arg_in.e[i] # arg_out.e[i]

C3_CongruenceClosure ==
    op = "graph_applyo" => res = Bind(Reach(rel, arg_in), arg_out)

\* C3 witness: with R = {(2, 3)} the solutions for [2, [2]] are [3, [2]],
\* [2, [3]] and [3, [3]]
C3_Witness ==
    /\ op = "graph_applyo" /\ isvar(arg_out)
    /\ rel = {<<Atom(2), Atom(3)>>}
    /\ arg_in = List(<<Atom(2), List(<<Atom(2)>>)>>)
    /\ res = {List(<<Atom(3), List(<<Atom(2)>>)>>),
              List(<<Atom(2), List(<<Atom(3)>>)>>),
              List(<<Atom(3), List(<<Atom(3)>>)>>)}

\* R contains a reflexive pair
HasReflexivePair(R) == \E p \in R : p[1] = p[2]

\* C4 as stated: if R contains no reflexive pair, graph_applyo never binds
\* out_graph to in_graph itself.
C4_NoReflexivePairNoIdentity ==
    (op = "graph_applyo" /\ ~HasReflexivePair(rel)) => arg_in \notin res

\* C4 amended: graph_applyo binds out_graph to in_graph itself only if
\* in_graph is obtained from itself by one or more applications of R (a
\* rewrite cycle through in_graph, of which a reflexive pair is one case).
C4_IdentityOnlyOnCycle ==
    (op = "graph_applyo" /\ arg_in \in res) => arg_in \in Reach(rel, arg_in)

\* C4 witness: in_graph comes back as out_graph under a relation that has
\* no reflexive pair
C4_Witness ==
    /\ op = "graph_applyo" /\ arg_in \in res
    /\ ~HasReflexivePair(rel)

\* C5 as stated: reduceo(R, x, x) has a solution only if R contains a
\* reflexive pair.
C5_IdentityNeedsReflexivePair ==
    (op = "reduceo" /\ ~extended /\ arg_in \in res) => HasReflexivePair(rel)

\* C5 amended: reduceo(R, x, x) has a solution only if R has a chain of one
\* or more steps from x back to x; the combinator adds no identity result.
C5_IdentityOnlyOnCycle ==
    (op = "reduceo" /\ arg_in \in res) => arg_in \in Chain(rel, arg_in)

\* C5 witness: x is related to itself under a relation without reflexive pair
C5_Witness ==
    /\ op = "reduceo" /\ arg_in \in res
    /\ ~HasReflexivePair(rel)

\* C6 as stated: reduceo includes the identity relation, so reduceo(R, x, x)
\* has a solution for every R and x.
C6_IncludesIdentity ==
    (op = "reduceo" /\ (isvar(arg_out) \/ arg_out = arg_in)) => arg_in \in res

\* C7: lapply_anyo, flag at its default, has no solution on two empty
\* sequences, whatever the relation.
C7_EmptyNeverSucceeds ==
    (op = "lapply_anyo" /\ i_any = FALSE /\ is_null(arg_in) /\ is_null(arg_out))
      => res = {}

\* C7 witness: the call on two empty lists under a non-empty relation
C7_Witness ==
    /\ op = "lapply_anyo" /\ i_any = FALSE
    /\ is_null(arg_in) /\ arg_out = arg_in
    /\ rel # {} /\ res = {}

\* both arguments are concrete sequences (or sentinels), of differing kinds
KindMismatch ==
    /\ arg_in.k \in Kinds /\ arg_out.k \in Kinds
    /\ arg_in.k # arg_out.k

\* C8: on concrete sequences of differing sentinel kinds lapply_anyo returns
\* the fail goal: no solution, no relation applied, nothing unified.
C8_KindMismatchFailsAtOnce ==
    (op = "lapply_anyo" /\ KindMismatch) =>
      /\ res = {}
      /\ goal = "fail"
      /\ events = {}

\* C8 witness: a list against a tuple with the same elements, the relation
\* holding between the heads
C8_Witness ==
    /\ op = "lapply_anyo" /\ KindMismatch
    /\ is_cons(arg_in) /\ is_cons(arg_out)
    /\ Len(arg_in.e) = Len(arg_out.e)
    /\ Holds(rel, arg_in.e[1], arg_out.e[1])
    /\ goal = "fail"

\* C9: every solution of reduceo(R, x, y) is a solution of reduceo(R2, x, y)
\* for a relation R2 that contains R, R with the reflexive pairs on the
\* terms reachable from x among them.
C9_MonotoneInRelation ==
    (op = "reduceo" /\ extended) => base_res \subseteq res

\* C9 witness: a solved call run again with reflexive pairs added on the
\* terms reachable from x
C9_Witness ==
    /\ op = "reduceo" /\ extended
    /\ base_res # {}
    /\ \E t \in base_res : Holds(rel, t, t)
    /\ base_res \subseteq res

\* R has an infinite chain from x: a term on a cycle is reachable from x
HasInfiniteChain(R, x) == \E t \in Chain(R, x) \cup {x} : t \in Chain(R, t)

\* out_expr is reachable from in_expr by a finite chain of R steps
OutReachable == Bind(Chain(rel, arg_in), arg_out) # {}

\* C10: when out_expr is reachable from in_expr by a finite chain of R steps,
\* pulling from reduceo under the fair interleaving eventually yields a
\* solution, also when R has an infinite chain from in_expr.
C10_EventuallyYields ==
    (op = "pull" /\ OutReachable) ~> (res # {})

\* C10 witness: a solution pulled while R has a cycle reachable from in_expr
\* and the recursive branch is still pending
C10_Witness ==
    /\ op = "pull" /\ res # {}
    /\ HasInfiniteChain(rel, arg_in)
    /\ \E b \in branches : b.g # "single"

\* R has no infinite chain of R steps from any term: no left-hand side of R
\* is on a cycle of R (a finite R branches finitely)
Terminating(R) == \A p \in R : p[1] \notin Chain(R, p[1])

\* no infinite chain of rewrites from x, each an application of R at the
\* root or at a nested position of the current term
RewritingTerminates(R, x) == \A t \in Reach(R, x) \cup {x} : t \notin Reach(R, t)

\* C11 as stated: when R has no infinite chain of R steps from any term, the
\* search of graph_applyo(R, in_graph, out) ends: no goal call is left
\* unevaluated.
C11_TerminatingRelationBoundsSearch ==
    (op = "graph_applyo" /\ Terminating(rel)) => ~suspended

\* C11 amended: when there is no infinite chain of rewrites from in_graph,
\* each an application of R at the root or at a nested position, the search
\* of graph_applyo(R, in_graph, out) ends, with finitely many solutions.
C11_TerminatingRewritingBoundsSearch ==
    (op = "graph_applyo" /\ RewritingTerminates(rel, arg_in)) =>
      /\ ~suspended
      /\ IsFiniteSet(res)

\* C11 witness: a search that ends after rewriting a sequence at both of its
\* elements, one of them nested
C11_Witness ==
    /\ op = "graph_applyo" /\ isvar(arg_out)
    /\ RewritingTerminates(rel, arg_in)
    /\ ~suspended
    /\ is_cons(arg_in) /\ Len(arg_in.e) >= 2
    /\ \E t \in res : \A i \in 1..2 : t.e[i] # arg_in.e[i]
    /\ \E t \in res : \E i \in 1..2 : is_cons(arg_in.e[i]) /\ is_cons(t.e[i])
                                       /\ t.e[i] # arg_in.e[i]

\* the last optimize_graph call was given an existing FunctionGraph
GivenFunctionGraph == x_arg.k = "graph"

\* C12 as stated: when optimize_graph is given an existing FunctionGraph,
\* after the call the given graph is unchanged and the optimized result is
\* a distinct graph.
C12_GivenGraphUntouched ==
    GivenFunctionGraph =>
      /\ fgraphs[x_arg.g] = x_before
      /\ x_graph_opt # x_arg.g
      /\ og_res # GraphRef(x_arg.g)

\* the same when in_place was left False
C12_UntouchedUnlessInPlace ==
    (GivenFunctionGraph /\ ~in_place) =>
      /\ fgraphs[x_arg.g] = x_before
      /\ x_graph_opt # x_arg.g
      /\ og_res # GraphRef(x_arg.g)

\* C13: on concrete sequences a and b, lapply_anyo(R, a, b) has a solution
\* iff a and b have the same sentinel kind and the same length, at every
\* index R(a[i], b[i]) holds or a[i] = b[i], and R holds at one index at
\* least unless the flag came in satisfied; a flag that is satisfied asks
\* for no further R step, and differing lengths never give a solution.
C13_SolvableIffPointwise ==
    (op = "lapply_anyo" /\ ~isvar(arg_in) /\ ~isvar(arg_out)) =>
      ((res # {}) <=>
         /\ arg_in.k = arg_out.k
         /\ Len(arg_in.e) = Len(arg_out.e)
         /\ \A i \in DOMAIN arg_in.e :
               Holds(rel, arg_in.e[i], arg_out.e[i]) \/ arg_in.e[i] = arg_out.e[i]
         /\ \/ i_any
            \/ \E i \in DOMAIN arg_in.e : Holds(rel, arg_in.e[i], arg_out.e[i]))

\* C13 witness: a solution where R holds at the first index only and the
\* elements after it are identical and not related by R
C13_Witness ==
    /\ op = "lapply_anyo" /\ ~isvar(arg_in) /\ ~isvar(arg_out) /\ i_any = FALSE
    /\ res # {}
    /\ Len(arg_in.e) = 3 /\ Len(arg_out.e) = 3
    /\ arg_in.e[1] # arg_out.e[1]
    /\ \A i \in 2..3 : /\ arg_in.e[i] = arg_out.e[i]
                       /\ ~Holds(rel, arg_in.e[i], arg_out.e[i])

\* t is a sequence: cons cells that end in the sentinel of a list or of a
\* tuple, or in None, the terminator lapply_anyo uses when neither of its
\* sides was concrete (graph.py 19)
EndsInSentinel(t) == t.k \in Kinds \cup {NoneT.k}

\* a lapply_anyo call with l_in, l_out or both unbound
UnboundCall == op = "lapply_anyo" /\ (isvar(arg_in) \/ isvar(arg_out))

\* C14: whichever of l_in and l_out are unbound when lapply_anyo is called,
\* every solution binds both to sequences of one length that end in one
\* common sentinel, of length n >= 1 when the flag is at its default; a
\* concrete side gives the generated side its sentinel kind.
C14_GeneratedSequencesAgree ==
    UnboundCall =>
      \A p \in solutions :
         /\ EndsInSentinel(p[1]) /\ EndsInSentinel(p[2])
         /\ p[1].k = p[2].k
         /\ Len(p[1].e) = Len(p[2].e)
         /\ (i_any = FALSE => Len(p[1].e) >= 1)
         /\ (~isvar(arg_in) => p[2].k = arg_in.k)
         /\ (~isvar(arg_out) => p[1].k = arg_out.k)

\* C14 witness: both sides unbound, a solution generated with two elements,
\* R applied at one of them
C14_Witness ==
    /\ UnboundCall /\ isvar(arg_in) /\ isvar(arg_out) /\ i_any = FALSE
    /\ \E p \in solutions :
          /\ Len(p[1].e) = 2 /\ Len(p[2].e) = 2
          /\ \E i \in 1..2 : Holds(rel, p[1].e[i], p[2].e[i])
          /\ \E i \in 1..2 : isvar(p[1].e[i]) /\ isvar(p[2].e[i])

\* C15: when R has no infinite chain from the ground in_expr, pulling every
\* result of reduceo(R, in_expr, out) comes to the end of the stream, with
\* the finitely many terms of the chains from in_expr that out_expr admits
\* as results: none when out_expr is unreachable.
C15_ExhaustionTerminates ==
    (op = "pull" /\ ~HasInfiniteChain(rel, arg_in))
      ~> (branches = {} /\ res = Bind(Chain(rel, arg_in), arg_out)
                        /\ IsFiniteSet(res))

\* C15 witness: the stream of a relation without infinite chain exhausted
\* after two results, one of them two steps away
C15_Witness ==
    /\ op = "pull" /\ ~HasInfiniteChain(rel, arg_in)
    /\ branches = {}
    /\ isvar(arg_out)
    /\ Cardinality(res) >= 2
    /\ \E t \in res : ~Holds(rel, arg_in, t)

====
